---- MODULE Spec2Model ----
(***************************************************************************)
(* A model of async-walkdir (src/src/lib.rs): the WalkDir stream, the      *)
(* unfold closure of walk_dir, and the step functions walk / walk_entry,   *)
(* run against a finite directory tree whose filesystem calls may fail.    *)
(***************************************************************************)
EXTENDS Naturals, Sequences, FiniteSets, TLC

\* Bounds of the model: the number of entries beneath path 0 and the number
\* of entries whose filesystem calls fail.
MaxEntries == 3
MaxFaults == 1

VARIABLES
    fs,      \* the directory tree on disk (never changed by the walk)
    root,    \* WalkDir.root, the path given to WalkDir::new
    state,   \* the state held by the unfold stream in WalkDir.entries
    log,     \* calls made and items produced since the stream was built
    last,    \* what the latest poll_next returned
    built    \* the filter given to the constructor call that built the stream

vars == <<fs, root, state, log, last, built>>

----------------------------------------------------------------------------
\* The filesystem.  Paths are numbers: 0 is the top directory, 1..fs.n are the
\* entries beneath it, NoPath is a path that does not exist.  A directory
\* lists its children in increasing number (the listing order of the
\* platform, fixed for one tree).

NoPath == MaxEntries + 1

Faults == {"none", "read", "ftype", "open"}

RECURSIVE AncSelf(_, _)
AncSelf(parent, i) == IF i = 0 THEN {0} ELSE {i} \cup AncSelf(parent, parent[i])

Ancestors(i) == AncSelf(fs.parent, i) \ {i}

Subtree(d) == {e \in 1..fs.n : d \in Ancestors(e)}

\* Trees are numbered in depth-first order, one numbering per shape.
TreeShapes(n) ==
    {p \in [1..n -> 0..(MaxEntries - 1)] :
        \A i \in 1..n : /\ p[i] < i
                        /\ i > 1 => p[i] \in AncSelf(p, i - 1)}

Kinds(n, parent) ==
    {d \in [0..n -> BOOLEAN] : d[0] /\ \A i \in 1..n : d[parent[i]]}

FaultMaps(n, isDir) ==
    {f \in [0..n -> Faults] :
        /\ f[0] \in {"none", "open"}
        /\ \A i \in 0..n : f[i] = "open" => isDir[i]
        /\ Cardinality({i \in 0..n : f[i] # "none"}) <= MaxFaults}

\* The records of directory d, in listing order.
Listing(d) ==
    LET c == {e \in 1..fs.n : fs.parent[e] = d}
    IN  [k \in 1..Cardinality(c) |->
            CHOOSE e \in c : Cardinality({x \in c : x < e}) = k - 1]

----------------------------------------------------------------------------
\* Values of the program.

Verdicts == {"Continue", "Ignore", "IgnoreDir"}

NoFilter == "None"
Filters == {"f", "g"}
\* The closure given to the first filter call is f, the one that replaces it
\* is g, and so on in turn.
Other(filter) == IF filter = "f" THEN "g" ELSE "f"

Start(r, filter) == [tag |-> "Start", root |-> r, dirs |-> <<>>, filter |-> filter]
Walk(dirs, filter) == [tag |-> "Walk", root |-> NoPath, dirs |-> dirs, filter |-> filter]
Done == [tag |-> "Done", root |-> NoPath, dirs |-> <<>>, filter |-> NoFilter]
\* Unfold's own slot is empty once the closure has returned None.
NoState == [tag |-> "None", root |-> NoPath, dirs |-> <<>>, filter |-> NoFilter]

Ev(call, at, res, by) == [call |-> call, at |-> at, res |-> res, by |-> by]
OkItem(entry) == Ev("yield", entry, "Ok", "-")
ErrItem(e) == Ev("yield", e.at, e.kind, e.call)

\* Option<(item, state)> returned by the closure, with the calls it made.
Some(item, next, lg) == [some |-> TRUE, next |-> next, log |-> Append(lg, item)]
None(lg) == [some |-> FALSE, next |-> NoState, log |-> lg]

----------------------------------------------------------------------------
\* The filesystem calls the walk makes.

\* std::fs::read_dir(path)
read_dir(path) ==
    IF path = NoPath THEN [ok |-> FALSE, call |-> "read_dir", at |-> path, kind |-> "NotFound"]
    ELSE IF ~fs.isDir[path]
    THEN [ok |-> FALSE, call |-> "read_dir", at |-> path, kind |-> "NotADirectory"]
    ELSE IF fs.fault[path] = "open"
    THEN [ok |-> FALSE, call |-> "read_dir", at |-> path, kind |-> "PermissionDenied"]
    ELSE [ok |-> TRUE, rd |-> [dir |-> path, pos |-> 0]]

\* ReadDir::next: the next record of an open listing; the cursor moves past
\* the record also when reading it fails.
next(rd) ==
    LET l == Listing(rd.dir)
        moved == [rd EXCEPT !.pos = rd.pos + 1]
    IN  IF rd.pos >= Len(l) THEN [res |-> "none", rd |-> rd, at |-> rd.dir]
        ELSE IF fs.fault[l[rd.pos + 1]] = "read"
        THEN [res |-> "err", rd |-> moved, at |-> l[rd.pos + 1],
              err |-> [ok |-> FALSE, call |-> "next", at |-> l[rd.pos + 1], kind |-> "Other"]]
        ELSE [res |-> "ok", rd |-> moved, at |-> l[rd.pos + 1]]

\* DirEntry::file_type
file_type(entry) ==
    IF fs.fault[entry] = "ftype"
    THEN [ok |-> FALSE, call |-> "file_type", at |-> entry, kind |-> "Other"]
    ELSE [ok |-> TRUE, is_dir |-> fs.isDir[entry]]

----------------------------------------------------------------------------
\* The step functions.  Each returns the set of results the step can have:
\* one for every verdict the filter may return on the entries it is called on.

\* A variant of the filter call where no filter means Ignore.
call_filter_none_ignores(filter, entry) ==
    IF filter # NoFilter THEN Verdicts ELSE {"Ignore"}

\* filter(entry.clone()).await, or Continue when no filter is attached.
call_filter(filter, entry) == IF filter # NoFilter THEN Verdicts ELSE {"Continue"}

\* Variants of the push with a slip in the condition.
push_never(dirs, rd, filtering) == dirs

push_only_if_Continue(dirs, rd, filtering) ==
    IF filtering = "Continue" THEN Append(dirs, rd) ELSE dirs

push_always(dirs, rd, filtering) == Append(dirs, rd)

push_unless_Ignore(dirs, rd, filtering) ==
    IF filtering # "Ignore" THEN Append(dirs, rd) ELSE dirs

\* if filtering != Filtering::IgnoreDir { dirs.push(rd) }
push_unless_IgnoreDir(dirs, rd, filtering) ==
    IF filtering # "IgnoreDir" THEN Append(dirs, rd) ELSE dirs

RECURSIVE walk(_, _, _), walk_entry(_, _, _, _)

\* A variant of walk_entry that opens the directory before asking the filter.
walk_entry_open_first(entry, dirs, filter, lg) ==
    LET ft == file_type(entry)
        lg1 == Append(lg, Ev("file_type", entry, IF ft.ok THEN "ok" ELSE "err", "-"))
    IN  IF ~ft.ok THEN {Some(ErrItem(ft), Walk(dirs, filter), lg1)}
        ELSE UNION {
            LET opened == IF ft.is_dir THEN read_dir(entry) ELSE [ok |-> TRUE]
                lg2 == IF ft.is_dir
                       THEN Append(lg1, Ev("read_dir", entry,
                                           IF opened.ok THEN "ok" ELSE "err", "-"))
                       ELSE lg1
                lg3 == IF filter # NoFilter /\ opened.ok
                       THEN Append(lg2, Ev("filter", entry, filtering, filter))
                       ELSE lg2
                dirs1 == IF ft.is_dir /\ opened.ok
                         THEN push_unless_IgnoreDir(dirs, opened.rd, filtering)
                         ELSE dirs
            IN  IF ~opened.ok THEN {Some(ErrItem(opened), Walk(dirs, filter), lg3)}
                ELSE IF filtering = "Continue"
                THEN {Some(OkItem(entry), Walk(dirs1, filter), lg3)}
                ELSE walk(dirs1, filter, lg3)
            : filtering \in call_filter(filter, entry)}

\* A variant of walk_entry that yields a directory it could not open.
walk_entry_yields_unopened(entry, dirs, filter, lg) ==
    LET ft == file_type(entry)
        lg1 == Append(lg, Ev("file_type", entry, IF ft.ok THEN "ok" ELSE "err", "-"))
    IN  IF ~ft.ok THEN {Some(ErrItem(ft), Walk(dirs, filter), lg1)}
        ELSE UNION {
            LET lg2 == IF filter # NoFilter
                       THEN Append(lg1, Ev("filter", entry, filtering, filter))
                       ELSE lg1
                opened == IF ft.is_dir THEN read_dir(entry) ELSE [ok |-> TRUE]
                lg3 == IF ft.is_dir
                       THEN Append(lg2, Ev("read_dir", entry,
                                           IF opened.ok THEN "ok" ELSE "err", "-"))
                       ELSE lg2
                dirs1 == IF ft.is_dir /\ opened.ok
                         THEN push_unless_IgnoreDir(dirs, opened.rd, filtering)
                         ELSE dirs
            IN  IF filtering = "Continue"
                THEN {Some(OkItem(entry), Walk(dirs1, filter), lg3)}
                ELSE IF ~opened.ok THEN {Some(ErrItem(opened), Walk(dirs, filter), lg3)}
                ELSE walk(dirs1, filter, lg3)
            : filtering \in call_filter(filter, entry)}

\* A variant of walk_entry that still descends into a directory whose type
\* could not be resolved.
walk_entry_descends_untyped(entry, dirs, filter, lg) ==
    LET ft == file_type(entry)
        lg1 == Append(lg, Ev("file_type", entry, IF ft.ok THEN "ok" ELSE "err", "-"))
    IN  IF ~ft.ok
        THEN {Some(ErrItem(ft),
                   Walk(IF read_dir(entry).ok THEN Append(dirs, read_dir(entry).rd) ELSE dirs,
                        filter),
                   lg1)}
        ELSE UNION {
            LET lg2 == IF filter # NoFilter
                       THEN Append(lg1, Ev("filter", entry, filtering, filter))
                       ELSE lg1
                opened == IF ft.is_dir THEN read_dir(entry) ELSE [ok |-> TRUE]
                lg3 == IF ft.is_dir
                       THEN Append(lg2, Ev("read_dir", entry,
                                           IF opened.ok THEN "ok" ELSE "err", "-"))
                       ELSE lg2
                dirs1 == IF ft.is_dir /\ opened.ok
                         THEN push_unless_IgnoreDir(dirs, opened.rd, filtering)
                         ELSE dirs
            IN  IF ~opened.ok THEN {Some(ErrItem(opened), Walk(dirs, filter), lg3)}
                ELSE IF filtering = "Continue"
                THEN {Some(OkItem(entry), Walk(dirs1, filter), lg3)}
                ELSE walk(dirs1, filter, lg3)
            : filtering \in call_filter(filter, entry)}

\* A variant of walk_entry that hands entries with verdict Ignore to the
\* consumer.
walk_entry_yields_ignored(entry, dirs, filter, lg) ==
    LET ft == file_type(entry)
        lg1 == Append(lg, Ev("file_type", entry, IF ft.ok THEN "ok" ELSE "err", "-"))
    IN  IF ~ft.ok THEN {Some(ErrItem(ft), Walk(dirs, filter), lg1)}
        ELSE UNION {
            LET lg2 == IF filter # NoFilter
                       THEN Append(lg1, Ev("filter", entry, filtering, filter))
                       ELSE lg1
                opened == IF ft.is_dir THEN read_dir(entry) ELSE [ok |-> TRUE]
                lg3 == IF ft.is_dir
                       THEN Append(lg2, Ev("read_dir", entry,
                                           IF opened.ok THEN "ok" ELSE "err", "-"))
                       ELSE lg2
                dirs1 == IF ft.is_dir /\ opened.ok
                         THEN push_unless_IgnoreDir(dirs, opened.rd, filtering)
                         ELSE dirs
            IN  IF ~opened.ok THEN {Some(ErrItem(opened), Walk(dirs, filter), lg3)}
                ELSE IF filtering \in {"Continue", "Ignore"}
                THEN {Some(OkItem(entry), Walk(dirs1, filter), lg3)}
                ELSE walk(dirs1, filter, lg3)
            : filtering \in call_filter(filter, entry)}

walk_entry(entry, dirs, filter, lg) ==
    LET ft == file_type(entry)
        lg1 == Append(lg, Ev("file_type", entry, IF ft.ok THEN "ok" ELSE "err", "-"))
    IN  IF ~ft.ok THEN {Some(ErrItem(ft), Walk(dirs, filter), lg1)}
        ELSE UNION {
            LET lg2 == IF filter # NoFilter
                       THEN Append(lg1, Ev("filter", entry, filtering, filter))
                       ELSE lg1
                opened == IF ft.is_dir THEN read_dir(entry) ELSE [ok |-> TRUE]
                lg3 == IF ft.is_dir
                       THEN Append(lg2, Ev("read_dir", entry,
                                           IF opened.ok THEN "ok" ELSE "err", "-"))
                       ELSE lg2
                dirs1 == IF ft.is_dir /\ opened.ok
                         THEN push_unless_IgnoreDir(dirs, opened.rd, filtering)
                         ELSE dirs
            IN  IF ~opened.ok THEN {Some(ErrItem(opened), Walk(dirs, filter), lg3)}
                ELSE IF filtering = "Continue"
                THEN {Some(OkItem(entry), Walk(dirs1, filter), lg3)}
                ELSE walk(dirs1, filter, lg3)
            : filtering \in call_filter(filter, entry)}

\* A variant of walk that reads the oldest open listing instead of the newest.
walk_oldest_first(dirs, filter, lg) ==
    IF dirs # <<>>
    THEN LET r == next(dirs[1])
             dirs1 == [dirs EXCEPT ![1] = r.rd]
             lg1 == Append(lg, Ev("next", r.at, r.res, "-"))
         IN  CASE r.res = "ok" -> walk_entry(r.at, dirs1, filter, lg1)
               [] r.res = "err" -> {Some(ErrItem(r.err), Walk(dirs1, filter), lg1)}
               [] r.res = "none" -> walk(Tail(dirs), filter, lg1)
    ELSE {None(lg)}

\* A variant of walk that ends the stream on a read error.
walk_stop_on_error(dirs, filter, lg) ==
    IF dirs # <<>>
    THEN LET r == next(dirs[Len(dirs)])
             dirs1 == [dirs EXCEPT ![Len(dirs)] = r.rd]
             lg1 == Append(lg, Ev("next", r.at, r.res, "-"))
         IN  CASE r.res = "ok" -> walk_entry(r.at, dirs1, filter, lg1)
               [] r.res = "err" -> {Some(ErrItem(r.err), Done, lg1)}
               [] r.res = "none" -> walk(SubSeq(dirs, 1, Len(dirs) - 1), filter, lg1)
    ELSE {None(lg)}

\* A variant of walk that drops the listing whose read failed.
walk_pop_on_error(dirs, filter, lg) ==
    IF dirs # <<>>
    THEN LET r == next(dirs[Len(dirs)])
             dirs1 == [dirs EXCEPT ![Len(dirs)] = r.rd]
             lg1 == Append(lg, Ev("next", r.at, r.res, "-"))
         IN  CASE r.res = "ok" -> walk_entry(r.at, dirs1, filter, lg1)
               [] r.res = "err" ->
                    {Some(ErrItem(r.err), Walk(SubSeq(dirs, 1, Len(dirs) - 1), filter), lg1)}
               [] r.res = "none" -> walk(SubSeq(dirs, 1, Len(dirs) - 1), filter, lg1)
    ELSE {None(lg)}

\* A variant of walk that drops two listings when the top one is at its end.
walk_pops_two(dirs, filter, lg) ==
    IF dirs # <<>>
    THEN LET r == next(dirs[Len(dirs)])
             dirs1 == [dirs EXCEPT ![Len(dirs)] = r.rd]
             lg1 == Append(lg, Ev("next", r.at, r.res, "-"))
         IN  CASE r.res = "ok" -> walk_entry(r.at, dirs1, filter, lg1)
               [] r.res = "err" -> {Some(ErrItem(r.err), Walk(dirs1, filter), lg1)}
               [] r.res = "none" -> walk(SubSeq(dirs, 1, Len(dirs) - 2), filter, lg1)
    ELSE {None(lg)}

\* A variant of walk that ends the sequence at a read error.
walk_ends_on_read_error(dirs, filter, lg) ==
    IF dirs # <<>>
    THEN LET r == next(dirs[Len(dirs)])
             dirs1 == [dirs EXCEPT ![Len(dirs)] = r.rd]
             lg1 == Append(lg, Ev("next", r.at, r.res, "-"))
         IN  CASE r.res = "ok" -> walk_entry(r.at, dirs1, filter, lg1)
               [] r.res = "err" -> {None(lg1)}
               [] r.res = "none" -> walk(SubSeq(dirs, 1, Len(dirs) - 1), filter, lg1)
    ELSE {None(lg)}

walk(dirs, filter, lg) ==
    IF dirs # <<>>
    THEN LET r == next(dirs[Len(dirs)])
             dirs1 == [dirs EXCEPT ![Len(dirs)] = r.rd]
             lg1 == Append(lg, Ev("next", r.at, r.res, "-"))
         IN  CASE r.res = "ok" -> walk_entry(r.at, dirs1, filter, lg1)
               [] r.res = "err" -> {Some(ErrItem(r.err), Walk(dirs1, filter), lg1)}
               [] r.res = "none" -> walk(SubSeq(dirs, 1, Len(dirs) - 1), filter, lg1)
    ELSE {None(lg)}

\* A variant of the closure that keeps walking after the root failed to open.
closure_root_error_walks(s, lg) ==
    CASE s.tag = "Start" ->
            LET rd == read_dir(s.root)
                lg1 == Append(lg, Ev("read_dir", s.root, IF rd.ok THEN "ok" ELSE "err", "-"))
            IN  IF ~rd.ok THEN {Some(ErrItem(rd), Walk(<<>>, s.filter), lg1)}
                ELSE walk(<<rd.rd>>, s.filter, lg1)
      [] s.tag = "Walk" -> walk(s.dirs, s.filter, lg)
      [] s.tag = "Done" -> {None(lg)}

\* A variant of the closure that tries the root again after it failed to open.
closure_retries_root(s, lg) ==
    CASE s.tag = "Start" ->
            LET rd == read_dir(s.root)
                lg1 == Append(lg, Ev("read_dir", s.root, IF rd.ok THEN "ok" ELSE "err", "-"))
            IN  IF ~rd.ok THEN {Some(ErrItem(rd), s, lg1)}
                ELSE walk(<<rd.rd>>, s.filter, lg1)
      [] s.tag = "Walk" -> walk(s.dirs, s.filter, lg)
      [] s.tag = "Done" -> {None(lg)}

\* The closure given to stream::unfold.
closure(s, lg) ==
    CASE s.tag = "Start" ->
            LET rd == read_dir(s.root)
                lg1 == Append(lg, Ev("read_dir", s.root, IF rd.ok THEN "ok" ELSE "err", "-"))
            IN  IF ~rd.ok THEN {Some(ErrItem(rd), Done, lg1)}
                ELSE walk(<<rd.rd>>, s.filter, lg1)
      [] s.tag = "Walk" -> walk(s.dirs, s.filter, lg)
      [] s.tag = "Done" -> {None(lg)}

\* A variant of walk_dir that opens the root when the stream is built.
walk_dir_eager(r, filter) ==
    LET rd == read_dir(r)
        lg == <<Ev("read_dir", r, IF rd.ok THEN "ok" ELSE "err", "-")>>
    IN  IF rd.ok THEN [state |-> Walk(<<rd.rd>>, filter), log |-> lg]
        ELSE [state |-> Done, log |-> lg]

\* walk_dir builds the stream: nothing runs until it is polled.
walk_dir(r, filter) == [state |-> Start(r, filter), log |-> <<>>]

----------------------------------------------------------------------------
\* Operations.

\* After WalkDir::new(root).
Init ==
    /\ \E n \in 0..MaxEntries :
       \E parent \in TreeShapes(n) :
       \E isDir \in Kinds(n, parent) :
       \E fault \in FaultMaps(n, isDir) :
          /\ fs = [n |-> n, parent |-> parent, isDir |-> isDir, fault |-> fault]
          /\ root \in {0, NoPath}
          \* nothing beneath a root that cannot be opened is ever looked at
          /\ (root = NoPath \/ fault[0] = "open") => n = 0
    /\ state = walk_dir(root, NoFilter).state
    /\ log = walk_dir(root, NoFilter).log
    /\ last = "NotPolled"
    /\ built = NoFilter

\* A variant of filter that swaps the filter into the running stream.
Filter_in_place(f) ==
    /\ last # "Panic"
    /\ state' = IF state.tag \in {"Start", "Walk"} THEN [state EXCEPT !.filter = f] ELSE state
    /\ built' = f
    /\ UNCHANGED <<fs, root, log, last>>

\* WalkDir::filter(self, f)
Filter(f) ==
    /\ last # "Panic"
    /\ state' = walk_dir(root, f).state
    /\ log' = walk_dir(root, f).log
    /\ last' = "NotPolled"
    /\ built' = f
    /\ UNCHANGED <<fs, root>>

\* WalkDir::poll_next while the unfold stream holds a state.
Poll ==
    /\ last # "Panic"
    /\ state # NoState
    /\ \E r \in closure(state, log) :
           /\ state' = r.next
           /\ log' = r.log
           /\ last' = IF r.some THEN "Some" ELSE "None"
    /\ UNCHANGED <<fs, root, built>>

\* WalkDir::poll_next after the stream has returned None.  poll_next hands
\* the poll to the unfold stream without fusing it, and that stream has
\* neither a state nor a future to poll: the Stream contract leaves open
\* what such a poll does, and the unfold stream panics.  Either the poll
\* returns None again, or it panics and the stream is gone with what was
\* seen of it.
PollAfterNone ==
    /\ last # "Panic"
    /\ state = NoState
    /\ \/ last' = "None" /\ log' = log
       \/ last' = "Panic" /\ log' = <<>>
    /\ UNCHANGED <<fs, root, state, built>>

Next ==
    \/ Filter(Other(built))
    \/ Poll
    \/ PollAfterNone

Spec == Init /\ [][Next]_vars

----------------------------------------------------------------------------
\* One stream, built by WalkDir::new(root) or WalkDir::new(root).filter(f),
\* and a consumer that keeps pulling from it; every pull completes (the
\* filter's futures complete).
NextPull ==
    \/ last = "NotPolled" /\ built = NoFilter /\ Filter("f")
    \/ Poll
    \/ PollAfterNone

\* A pull can be made: the stream holds a state and has not panicked.
PollEnabled == state # NoState /\ last # "Panic"

\* Weak fairness of Poll, WF_vars(Poll), with ENABLED <<Poll>>_vars written
\* out as PollEnabled: a consumer that keeps pulling.
PullFair == []<>(~PollEnabled) \/ []<><<Poll>>_vars

PullSpec == Init /\ [][NextPull]_vars /\ PullFair

----------------------------------------------------------------------------

\* What a consumer and the filesystem have seen of the current stream.

Events(call) == {i \in 1..Len(log) : log[i].call = call}
At(call, e) == {i \in 1..Len(log) : log[i].call = call /\ log[i].at = e}

\* The items produced so far, in order.
Out == SelectSeq(log, LAMBDA ev : ev.call = "yield")
OkEntries == SelectSeq(log, LAMBDA ev : ev.call = "yield" /\ ev.res = "Ok")
YieldCount(e) == Cardinality({i \in 1..Len(log) : log[i] = OkItem(e)})

\* The verdict the filter gave for e, Continue without a filter.
VerdictOf(e) ==
    IF built = NoFilter THEN "Continue"
    ELSE IF \A i \in 1..Len(log) : ~(log[i].call = "filter" /\ log[i].at = e)
    THEN "NotAsked"
    ELSE log[CHOOSE i \in 1..Len(log) : log[i].call = "filter" /\ log[i].at = e].res

NoFailure == root = 0 /\ \A i \in 0..fs.n : fs.fault[i] = "none"
RootOpens == root = 0 /\ fs.fault[0] = "none"

\* Directory a is listed by the walk: it can be read, classified and opened,
\* and its verdict lets the walk descend.
Traversable(a) ==
    IF a = 0 THEN RootOpens
    ELSE fs.isDir[a] /\ fs.fault[a] = "none" /\ VerdictOf(a) \in {"Continue", "Ignore"}

Reach(e) == \A a \in Ancestors(e) : Traversable(a)

\* e is due as an Ok item: every call on it and above it succeeds and the
\* verdicts above it let the walk reach it.
Due(e) == Reach(e) /\ fs.fault[e] = "none" /\ VerdictOf(e) = "Continue"

Ended == last = "None"
\* The stream has been pulled from and is still there.
Polled == last \in {"Some", "None"}

SubtreeSelf(d) == Subtree(d) \cup {d}

\* The position of e in the listing of its directory.
ListPos(e) == Cardinality({x \in 1..fs.n : fs.parent[x] = fs.parent[e] /\ x <= e})

\* e is d or lies beneath d.
Under(e, d) == d \in AncSelf(fs.parent, e)

\* The events q are about entries in depth-first pre-order: a directory
\* before what is beneath it, every subtree in one block, siblings in listing
\* order.
PreOrder(q) ==
    /\ \A i, j \in 1..Len(q) : (i # j /\ Under(q[j].at, q[i].at)) => i < j
    /\ \A d \in 1..fs.n : \A j \in 1..(Len(q) - 1) :
          (Under(q[j].at, d) /\ ~Under(q[j + 1].at, d))
              => \A k \in (j + 2)..Len(q) : ~Under(q[k].at, d)
    /\ \A i, j \in 1..Len(q) :
          (i < j /\ fs.parent[q[i].at] = fs.parent[q[j].at])
              => ListPos(q[i].at) < ListPos(q[j].at)

----------------------------------------------------------------------------
\* C1: with no filter and no failing filesystem call, a walk pulled to its
\* end yields every entry beneath the root exactly once as an Ok item and
\* nothing else (never the root); an empty root ends on the first pull.
C1_UnfilteredWalkYieldsEachEntryOnce ==
    (built = NoFilter /\ NoFailure) =>
        /\ \A i \in Events("yield") : log[i].res = "Ok" /\ log[i].at \in 1..fs.n
        /\ \A e \in 1..fs.n : YieldCount(e) <= 1
        /\ Ended => \A e \in 1..fs.n : YieldCount(e) = 1
        /\ (fs.n = 0 /\ Polled) => (Ended /\ Out = <<>>)

C1_Witness ==
    /\ built = NoFilter /\ NoFailure /\ Ended
    /\ fs.n = MaxEntries
    /\ \E e \in 1..fs.n : fs.parent[e] # 0
    /\ \E e \in 1..fs.n : ~fs.isDir[e]
    /\ Len(Out) = fs.n

\* C2: a directory D with verdict Ignore is never yielded, but is descended
\* into: at the end every entry beneath D that the walk can reach has been
\* given to the filter, and those with verdict Continue were yielded once.
C2_IgnoredDirIsDescended ==
    \A i \in 1..Len(log) :
        (log[i].call = "filter" /\ log[i].res = "Ignore" /\ fs.isDir[log[i].at]) =>
            /\ YieldCount(log[i].at) = 0
            /\ Ended => \A e \in Subtree(log[i].at) :
                  (Reach(e) /\ fs.fault[e] = "none") =>
                      /\ VerdictOf(e) # "NotAsked"
                      /\ VerdictOf(e) = "Continue" => YieldCount(e) = 1
                      /\ VerdictOf(e) # "Continue" => YieldCount(e) = 0

C2_Witness ==
    \E d \in 1..fs.n : \E e \in Subtree(d) :
        /\ built # NoFilter /\ fs.isDir[d] /\ VerdictOf(d) = "Ignore"
        /\ Ended /\ VerdictOf(e) = "Continue" /\ YieldCount(e) = 1 /\ YieldCount(d) = 0

\* C3: a directory D with verdict IgnoreDir is never yielded and nothing
\* beneath it is read, filtered or yielded; every entry outside D's subtree
\* is yielded exactly when it is due, whatever D's verdict; IgnoreDir on a
\* non-directory suppresses only that entry.
C3_IgnoreDirPrunesSubtree ==
    \A i \in 1..Len(log) :
        (log[i].call = "filter" /\ log[i].res = "IgnoreDir") =>
            /\ YieldCount(log[i].at) = 0
            /\ \A j \in 2..Len(log) :
                  log[j].at = log[i].at \/ ~Under(log[j].at, log[i].at)
            /\ Ended => \A e \in 1..fs.n :
                  ~Under(e, log[i].at) => YieldCount(e) = IF Due(e) THEN 1 ELSE 0

C3_Witness ==
    \E d \in 1..fs.n : \E e \in Subtree(d) : \E x \in (1..fs.n) \ SubtreeSelf(d) :
        /\ built # NoFilter /\ fs.isDir[d] /\ VerdictOf(d) = "IgnoreDir"
        /\ Ended /\ d < x /\ YieldCount(x) = 1 /\ YieldCount(e) = 0

C3_WitnessFile ==
    \E d \in 1..fs.n : \E x \in (1..fs.n) \ {d} :
        /\ built # NoFilter /\ ~fs.isDir[d] /\ VerdictOf(d) = "IgnoreDir"
        /\ Ended /\ d < x /\ fs.parent[x] = fs.parent[d] /\ YieldCount(x) = 1

\* C4: when opening the root fails, the whole sequence is that one error
\* (not-found for a missing root) and then the end: the state goes from Start
\* to Done, nothing else is yielded and the filter is never called.
RootFails == root = NoPath \/ fs.fault[0] = "open"

C4_RootOpenFailureIsTheOnlyItem ==
    (RootFails /\ Polled) =>
        /\ Out = <<Ev("yield", root,
                      IF root = NoPath THEN "NotFound" ELSE "PermissionDenied",
                      "read_dir")>>
        /\ Events("filter") = {}
        /\ Events("next") = {}
        /\ last = "Some" => state = Done
        /\ last = "None" => state = NoState

C4_Witness ==
    /\ root = NoPath /\ built # NoFilter /\ Ended
    /\ Len(Out) = 1 /\ Out[1].res = "NotFound"

\* C5: Ok items come in depth-first pre-order: a directory before anything
\* beneath it, each subtree finished before anything outside it follows, and
\* the entries of one directory in the order of its listing.
C5_YieldsInDepthFirstPreOrder ==
    PreOrder(OkEntries)

C5_Witness ==
    \E d, s \in 1..fs.n : \E x \in Subtree(d) :
        /\ Ended /\ d < s /\ fs.parent[s] = fs.parent[d]
        /\ YieldCount(d) = 1 /\ YieldCount(x) = 1 /\ YieldCount(s) = 1

\* C6: an error reading a record, classifying an entry or opening a
\* subdirectory leaves the state Walking, and by the end of the walk every
\* entry that is due (no failing call on it or above it) has been yielded.
StepError(ev) == ev.call = "yield" /\ ev.res # "Ok" /\ ev.at \in 1..fs.n

C6_StepErrorsDoNotEndTheWalk ==
    /\ (last = "Some" /\ log # <<>> /\ StepError(log[Len(log)])) => state.tag = "Walk"
    /\ (Ended /\ \E i \in 1..Len(log) : StepError(log[i])) =>
           \A e \in 1..fs.n : YieldCount(e) = IF Due(e) THEN 1 ELSE 0

C6_Witness ==
    \E x, e \in 1..fs.n : \E i \in At("yield", x) :
        /\ Ended /\ StepError(log[i]) /\ log[i].by = "read_dir"
        /\ x < e /\ YieldCount(e) = 1

C6_WitnessRead ==
    \E x, e \in 1..fs.n : \E i \in At("yield", x) :
        /\ Ended /\ StepError(log[i]) /\ log[i].by = "next"
        /\ x < e /\ fs.parent[e] = fs.parent[x] /\ YieldCount(e) = 1

C6_WitnessFileType ==
    \E x, e \in 1..fs.n : \E i \in At("yield", x) :
        /\ Ended /\ StepError(log[i]) /\ log[i].by = "file_type"
        /\ x < e /\ fs.parent[e] # fs.parent[x] /\ YieldCount(e) = 1

\* C7: once a pull has returned the end of the sequence, every later pull
\* returns it again and changes nothing.
C7_EndOfSequenceIsAbsorbing ==
    [][(last = "None" /\ last' # "NotPolled")
          => (last' = "None" /\ state' = state /\ log' = log)]_vars

\* C8: building the stream calls neither the filesystem nor the filter; the
\* root is opened by the first pull, as the first call, and once per stream.
C8_ConstructionIsLazy ==
    /\ last = "NotPolled" => (log = <<>> /\ state.tag = "Start")
    /\ Polled => Cardinality(At("read_dir", root)) = 1
    /\ Polled => (log[1].call = "read_dir" /\ log[1].at = root)

C8_Witness ==
    /\ built = "g" /\ Ended /\ Len(Out) >= 2
    /\ Cardinality(At("read_dir", root)) = 1

\* C9: filter(g) leaves a fresh stream in state Start at the same root with
\* g as its only filter, whatever was attached or pulled before: every
\* filter call of the stream is a call of g.
C9_FilterRebuildsWithOneSlot ==
    /\ last = "NotPolled" => (state = Start(root, built) /\ log = <<>>)
    /\ state.tag \in {"Start", "Walk"} => state.filter = built
    /\ \A i \in Events("filter") : log[i].by = built

C9_Witness ==
    /\ built = "g" /\ Ended
    /\ Events("filter") # {} /\ Len(Out) >= 1

\* C10 as claimed: the filter is called exactly once for every entry read
\* from a listing.
Discovered(e) == \E i \in At("next", e) : log[i].res = "ok"
Classified(e) == \E i \in At("file_type", e) : log[i].res = "ok"

C10_FilterCalledOnEveryDiscoveredEntry ==
    built # NoFilter =>
        \A e \in 1..fs.n : Discovered(e) => Cardinality(At("filter", e)) = 1

\* C10 amended: the filter is called exactly once for every entry read from
\* a listing whose file type could be resolved, and not at all for the
\* others; the calls come in depth-first discovery order, each right after
\* the classification and before the entry is opened or yielded.
C10_FilterCalledOncePerClassifiedEntry ==
    built # NoFilter =>
        /\ \A i \in 1..Len(log) :
              (log[i].call = "file_type" /\ log[i].res = "ok") =>
                  /\ i < Len(log)
                  /\ log[i + 1].call = "filter" /\ log[i + 1].at = log[i].at
        /\ \A i \in 1..Len(log) :
              log[i].call = "filter" =>
                  /\ i > 1 /\ log[i - 1] = Ev("file_type", log[i].at, "ok", "-")
                  /\ \A j \in 1..Len(log) :
                        (j # i /\ log[j].at = log[i].at
                              /\ log[j].call \in {"filter", "read_dir", "yield"}) => i < j
        /\ \A i \in 1..Len(log) :
              (log[i].call = "file_type" /\ log[i].res = "err") => At("filter", log[i].at) = {}
        /\ PreOrder(SelectSeq(log, LAMBDA ev : ev.call = "filter"))

C10_Witness ==
    \E d, x \in 1..fs.n :
        /\ built # NoFilter /\ Ended
        /\ fs.isDir[d] /\ VerdictOf(d) = "Ignore" /\ x \in Subtree(d)
        /\ VerdictOf(x) = "IgnoreDir"
        /\ \E e \in 1..fs.n : fs.fault[e] = "ftype" /\ Discovered(e) /\ At("filter", e) = {}

----------------------------------------------------------------------------
\* The stream after k pulls when every step has one result (no filter): the
\* state the unfold stream holds and the calls and items so far.
RECURSIVE Pulls(_, _, _)
Pulls(s, lg, k) ==
    IF k = 0 \/ s = NoState THEN [state |-> s, log |-> lg]
    ELSE LET r == CHOOSE x \in closure(s, lg) : TRUE
         IN  Pulls(r.next, r.log, k - 1)

\* The pulls made on the current stream.
PullCount == Len(Out) + IF Ended THEN 1 ELSE 0

AllContinue == \A i \in 1..Len(log) : log[i].call = "filter" => log[i].res = "Continue"

\* C11: a stream whose filter has answered Continue every time is, after
\* every pull, where the stream built without a filter is after as many
\* pulls on the same tree: the same items (Ok, Err, end), the same filesystem
\* calls, and the same stack of listings with the same cursors.
C11_NoFilterIsAlwaysContinue ==
    (built # NoFilter /\ Polled /\ AllContinue) =>
        LET u == Pulls(walk_dir(root, NoFilter).state, walk_dir(root, NoFilter).log,
                       PullCount)
        IN  /\ u.log = SelectSeq(log, LAMBDA ev : ev.call # "filter")
            /\ u.state.tag = state.tag
            /\ u.state.dirs = state.dirs
            /\ u.state.root = state.root

C11_Witness ==
    /\ built # NoFilter /\ AllContinue /\ Ended
    /\ Cardinality(Events("filter")) >= 2
    /\ \E i \in Events("yield") : log[i].res = "Ok" /\ fs.parent[log[i].at] # 0
    /\ \E i \in Events("yield") : log[i].res # "Ok"

C11_WitnessMidWalk ==
    /\ built # NoFilter /\ AllContinue /\ last = "Some"
    /\ Len(state.dirs) >= 2 /\ Len(Out) >= 2

\* C12: a directory whose verdict is IgnoreDir is never opened, so it
\* produces no Err item even when it cannot be read.
C12_PrunedDirIsNeverOpened ==
    \A i \in 1..Len(log) :
        (log[i].call = "filter" /\ log[i].res = "IgnoreDir") =>
            /\ At("read_dir", log[i].at) = {}
            /\ \A j \in At("yield", log[i].at) : log[j].res = "Ok"

\* An unreadable directory with verdict IgnoreDir has produced an Err item.
C12_Witness ==
    \E d \in 1..fs.n : \E j \in At("yield", d) :
        /\ fs.isDir[d] /\ fs.fault[d] = "open" /\ VerdictOf(d) = "IgnoreDir"
        /\ log[j] = Ev("yield", d, "PermissionDenied", "read_dir")

----------------------------------------------------------------------------
\* dirs holds the listings of the directories above e, outermost first, and
\* the listing of e's directory, on top, has just moved past e.
PathStack(dirs, e) ==
    /\ Len(dirs) = Cardinality(Ancestors(e))
    /\ dirs[1].dir = 0
    /\ \A k \in 2..Len(dirs) :
          /\ dirs[k].dir \in Ancestors(e)
          /\ fs.parent[dirs[k].dir] = dirs[k - 1].dir
    /\ dirs[Len(dirs)] = [dir |-> fs.parent[e], pos |-> ListPos(e)]

StackIsPathTo(e) == state.tag = "Walk" /\ PathStack(state.dirs, e)

\* The call that follows log[i] reads the record after e in the listing of
\* e's directory (or finds that listing at its end).
ResumesAfter(i, e) ==
    i < Len(log) =>
        /\ log[i + 1].call = "next"
        /\ IF \E s \in 1..fs.n : s > e /\ fs.parent[s] = fs.parent[e]
           THEN /\ log[i + 1].res # "none"
                /\ fs.parent[log[i + 1].at] = fs.parent[e]
                /\ ListPos(log[i + 1].at) = ListPos(e) + 1
           ELSE log[i + 1] = Ev("next", fs.parent[e], "none", "-")

OpenFails(ev) == ev.call = "read_dir" /\ ev.res = "err" /\ ev.at \in 1..fs.n
OpenError(ev) == ev.call = "yield" /\ ev.by = "read_dir" /\ ev.at \in 1..fs.n

\* C13: when a discovered directory cannot be opened, the pull returns that
\* one error and pushes nothing: the stack is the one the entry was read
\* under with the cursor of its directory past it; the directory is never
\* yielded as an entry, whatever its verdict, and the walk goes on with the
\* record that follows it.
C13_SubdirOpenFailureSkipsTheDir ==
    \A i \in 1..Len(log) :
        OpenFails(log[i]) =>
            /\ i < Len(log)
            /\ log[i + 1] = Ev("yield", log[i].at, "PermissionDenied", "read_dir")
            /\ At("yield", log[i].at) = {i + 1}
            /\ At("read_dir", log[i].at) = {i}
            /\ \A k \in 1..Len(state.dirs) : state.dirs[k].dir # log[i].at
            /\ (i + 1 = Len(log)) => (last = "Some" /\ StackIsPathTo(log[i].at))
            /\ ResumesAfter(i + 1, log[i].at)

C13_Witness ==
    \E i \in 1..Len(log) : \E s \in 1..fs.n :
        /\ OpenError(log[i]) /\ VerdictOf(log[i].at) = "Continue"
        /\ fs.parent[log[i].at] # 0
        /\ s > log[i].at /\ fs.parent[s] = fs.parent[log[i].at]
        /\ YieldCount(s) = 1 /\ Ended

C13_WitnessAtError ==
    /\ log # <<>> /\ OpenError(log[Len(log)]) /\ Len(state.dirs) = 2

----------------------------------------------------------------------------
ReadFails(ev) == ev.call = "next" /\ ev.res = "err"

\* C14: when reading the next record of the top listing fails, the pull
\* returns that error and nothing else happens to the record (no
\* classification, no filter call, no open); the stack is the one the read was
\* made on: no listing popped, none pushed, the same listings in the same
\* order.  A pull that starts with the failing read leaves the stack as the
\* pull before left it, but for the cursor of the top listing.
C14_ReadErrorKeepsTheStack ==
    [][\A i \in (Len(log) + 1)..Len(log') :
          ReadFails(log'[i]) =>
              /\ i + 1 = Len(log')
              /\ log'[i + 1] = Ev("yield", log'[i].at, "Other", "next")
              /\ last' = "Some"
              /\ state'.tag = "Walk" /\ PathStack(state'.dirs, log'[i].at)
              /\ \A j \in 1..Len(log') : log'[j].at = log'[i].at => j \in {i, i + 1}
              /\ (i = Len(log) + 1 /\ state.tag = "Walk") =>
                    /\ Len(state'.dirs) = Len(state.dirs)
                    /\ \A k \in 1..Len(state.dirs) : state'.dirs[k].dir = state.dirs[k].dir
                    /\ \A k \in 1..(Len(state.dirs) - 1) : state'.dirs[k] = state.dirs[k]
                    /\ state'.dirs[Len(state.dirs)].pos = state.dirs[Len(state.dirs)].pos + 1
                    /\ state'.filter = state.filter]_vars

C14_Witness ==
    /\ last = "Some" /\ Len(log) >= 2 /\ ReadFails(log[Len(log) - 1])
    /\ Len(state.dirs) >= 2 /\ built # NoFilter

\* The failing read came after a pop in the same pull.
C14_WitnessAfterPop ==
    /\ last = "Some" /\ Len(log) >= 3 /\ ReadFails(log[Len(log) - 1])
    /\ log[Len(log) - 2].call = "next" /\ log[Len(log) - 2].res = "none"

----------------------------------------------------------------------------
TypeFails(ev) == ev.call = "file_type" /\ ev.res = "err"

\* C15: when the file type of a discovered entry cannot be resolved, the pull
\* returns that one error with the stack the entry was read under; the entry
\* is dropped: the filter is not called for it, it is not opened, never
\* yielded, nothing beneath it is ever looked at, and the walk goes on with
\* the record that follows it in the same listing.
C15_FileTypeFailureDropsTheEntry ==
    \A i \in 1..Len(log) :
        TypeFails(log[i]) =>
            /\ i < Len(log)
            /\ log[i + 1] = Ev("yield", log[i].at, "Other", "file_type")
            /\ \A j \in 1..Len(log) :
                  Under(log[j].at, log[i].at) => j \in {i - 1, i, i + 1}
            /\ log[i - 1] = Ev("next", log[i].at, "ok", "-")
            /\ \A k \in 1..Len(state.dirs) : state.dirs[k].dir # log[i].at
            /\ (i + 1 = Len(log)) => (last = "Some" /\ StackIsPathTo(log[i].at))
            /\ ResumesAfter(i + 1, log[i].at)

C15_Witness ==
    \E i \in 1..Len(log) : \E s \in 1..fs.n :
        /\ TypeFails(log[i]) /\ built # NoFilter /\ Ended
        /\ fs.isDir[log[i].at] /\ Subtree(log[i].at) # {}
        /\ s > log[i].at /\ fs.parent[s] = fs.parent[log[i].at]
        /\ YieldCount(s) = 1

C15_WitnessAtError ==
    /\ Len(log) >= 2 /\ TypeFails(log[Len(log) - 1]) /\ Len(state.dirs) = 2

----------------------------------------------------------------------------
\* The number of directories above e, the top directory included.
Depth(e) == Cardinality(AncSelf(fs.parent, e)) - 1

Opened(lg, d) == \E j \in 1..Len(lg) : lg[j] = Ev("read_dir", d, "ok", "-")
FoundExhausted(lg, d) == \E j \in 1..Len(lg) : lg[j] = Ev("next", d, "none", "-")
Pruned(lg, d) ==
    \E j \in 1..Len(lg) : lg[j].call = "filter" /\ lg[j].at = d /\ lg[j].res = "IgnoreDir"

\* The directories whose listings state s holds.
Held(s) == IF s.tag = "Walk" THEN {s.dirs[k].dir : k \in 1..Len(s.dirs)} ELSE {}

\* The stack discipline of dirs after the calls lg: the listing of the top
\* directory at the bottom, above each listing that of a child directory the
\* lower one has just moved past, as many listings as the walk is deep; every
\* listing held was opened and has not been found at its end, and every
\* listing opened and not held was found at its end or belongs to a pruned
\* directory (so the top is the latest opened of those still being read).
StackInv(dirs, lg) ==
    /\ dirs # <<>>
    /\ dirs[1].dir = 0
    /\ \A k \in 2..Len(dirs) :
          /\ fs.isDir[dirs[k].dir]
          /\ fs.parent[dirs[k].dir] = dirs[k - 1].dir
          /\ dirs[k - 1].pos = ListPos(dirs[k].dir)
    /\ Len(dirs) = Depth(dirs[Len(dirs)].dir) + 1
    /\ \E d \in 0..fs.n : fs.isDir[d] /\ Len(dirs) <= Depth(d) + 1
    /\ \A k \in 1..Len(dirs) : Opened(lg, dirs[k].dir) /\ ~FoundExhausted(lg, dirs[k].dir)
    /\ \A j \in 1..Len(lg) :
          (lg[j].call = "read_dir" /\ lg[j].res = "ok"
                /\ \A k \in 1..Len(dirs) : dirs[k].dir # lg[j].at)
              => (FoundExhausted(lg, lg[j].at) \/ Pruned(lg, lg[j].at))

\* C16: in every Walking state the stack keeps the discipline above, and a
\* pull changes the stack only by dropping listings it found at their end
\* and by adding listings of directories it opened; the listings that stay
\* keep their place.
C16_StackInvariant ==
    [][/\ state'.tag = "Walk" => StackInv(state'.dirs, log')
       /\ (built' = built /\ last' # "Panic") =>
             /\ \A d \in Held(state) \ Held(state') :
                   FoundExhausted(log', d) /\ ~FoundExhausted(log, d)
             /\ \A d \in Held(state') \ Held(state) :
                   Opened(log', d) /\ ~Opened(log, d) /\ ~Pruned(log', d)
             /\ \A k \in 1..Len(state.dirs) :
                   state.dirs[k].dir \in Held(state') =>
                       /\ state'.dirs[k].dir = state.dirs[k].dir
                       /\ state'.dirs[k].pos >= state.dirs[k].pos]_vars

C16_Witness ==
    /\ state.tag = "Walk" /\ Len(state.dirs) = 3
    /\ \E d \in 1..fs.n : FoundExhausted(log, d)

C16_WitnessPruned ==
    /\ state.tag = "Walk" /\ Len(state.dirs) = 2
    /\ \E d \in 1..fs.n : Pruned(log, d) /\ Opened(log, d)

----------------------------------------------------------------------------
\* How far the traversal has come: not started, walking, or terminated (in
\* State::Done, or with no state left in the unfold stream).
Phase(s) == CASE s.tag = "Start" -> 0
              [] s.tag = "Walk" -> 1
              [] OTHER -> 2

\* C17: on one stream (no filter call in between) the state only moves
\* forward along Start, Walking, terminated: a pull leaves Start for good,
\* Walking is not entered again once the walk has terminated, and the
\* terminated state is never left.
C17_StateOnlyMovesForward ==
    [][built' = built =>
          /\ Phase(state') >= Phase(state)
          /\ state.tag = "Start" => state'.tag # "Start"
          /\ state'.tag = "Walk" => state.tag \in {"Start", "Walk"}
          /\ Phase(state) = 2 => Phase(state') = 2
          /\ state.tag = "Done" => state' = NoState
          /\ state = NoState => state' = NoState]_vars

C17_Witness ==
    /\ state = NoState /\ Ended /\ RootOpens /\ Len(Out) >= 2

C17_WitnessDone ==
    /\ state = Done /\ built # NoFilter

----------------------------------------------------------------------------
Discards(ev) == ev.call = "filter" /\ ev.res \in {"Ignore", "IgnoreDir"}

\* C18: a pull returns one item, as the last thing it does, or the end of
\* the sequence and no item; whatever it did to entries with verdict Ignore
\* or IgnoreDir and to listings at their end stays inside the pull.  An Ok
\* item is an entry the filter has just answered Continue for (or any entry
\* when there is no filter), and an entry with another verdict is never an
\* Ok item.
C18_DiscardedEntriesNeverSurface ==
    [][(built' = built /\ last' \in {"Some", "None"}) =>
          /\ last' = "Some" =>
                /\ Len(log') > Len(log)
                /\ \A j \in (Len(log) + 1)..Len(log') :
                      log'[j].call = "yield" <=> j = Len(log')
          /\ last' = "None" =>
                \A j \in (Len(log) + 1)..Len(log') : log'[j].call # "yield"
          /\ (last' = "Some" /\ log'[Len(log')].res = "Ok" /\ built # NoFilter) =>
                \E j \in (Len(log) + 1)..Len(log') :
                    log'[j] = Ev("filter", log'[Len(log')].at, "Continue", built)
          /\ \A j \in (Len(log) + 1)..Len(log') :
                Discards(log'[j]) =>
                    \A k \in 1..Len(log') : log'[k] # OkItem(log'[j].at)]_vars

\* The first pull has discarded two entries and dropped a listing at its end
\* before it returned an entry.
C18_Witness ==
    /\ last = "Some" /\ Len(Out) = 1 /\ Out[1].res = "Ok"
    /\ Cardinality({j \in 1..Len(log) : Discards(log[j])}) >= 2
    /\ \E d \in 1..fs.n : FoundExhausted(log, d)

\* A pull has discarded every entry and returned the end of the sequence.
C18_WitnessEnd ==
    /\ Ended /\ Out = <<>>
    /\ Cardinality({j \in 1..Len(log) : Discards(log[j])}) = MaxEntries

----------------------------------------------------------------------------
\* C19: a consumer that keeps pulling from one stream receives the end of
\* the sequence, read, classification and open errors or not; it has then
\* received at most one item for each entry of the tree, and the stack is
\* empty (until then a pull can always be made and moves the stream on): every listing that was opened has been read to its end and dropped
\* (or was dropped at once, its directory being pruned).
C19_WalkTerminates ==
    /\ <>Ended
    /\ [](PollEnabled => \E r \in closure(state, log) : r.next # state \/ r.log # log)
    /\ [](Polled => Len(Out) <= IF RootFails THEN 1 ELSE fs.n)
    /\ [](Ended => /\ Held(state) = {}
                   /\ \A d \in 0..fs.n :
                         Opened(log, d) => (FoundExhausted(log, d) \/ Pruned(log, d)))

C19_Witness ==
    /\ Ended /\ built = "f" /\ Len(Out) = fs.n /\ fs.n = MaxEntries
    /\ \E i \in Events("yield") : log[i].res # "Ok"
    /\ \E d \in 1..fs.n : FoundExhausted(log, d)

----------------------------------------------------------------------------
\* Every directory above e and beneath the top directory was opened and has
\* verdict Continue or Ignore.
AncestorsDescended(e) ==
    \A a \in Ancestors(e) \ {0} :
        fs.isDir[a] /\ Opened(log, a) /\ VerdictOf(a) \in {"Continue", "Ignore"}

\* C20 as claimed: the entries given to the filter are exactly those whose
\* directories above them, beneath the root, were all opened with verdict
\* Continue or Ignore.
C20_FilterSeesExactlyTheUnprunedEntries ==
    built # NoFilter =>
        /\ \A i \in 1..Len(log) : log[i].call = "filter" => AncestorsDescended(log[i].at)
        /\ Ended => \A e \in 1..fs.n : AncestorsDescended(e) => At("filter", e) # {}

\* C20 amended: the filter is never called on an entry beneath a directory
\* with verdict IgnoreDir, and the entries given to the filter by the end of
\* the walk are exactly those that could be read and classified and whose
\* directories above them, beneath the root, were all opened with verdict
\* Continue or Ignore.
C20_FilterSeesTheClassifiedUnprunedEntries ==
    built # NoFilter =>
        /\ \A i \in 1..Len(log) :
              log[i].call = "filter" =>
                  /\ AncestorsDescended(log[i].at)
                  /\ fs.fault[log[i].at] \notin {"read", "ftype"}
                  /\ \A a \in Ancestors(log[i].at) : ~Pruned(log, a)
        /\ Ended => \A e \in 1..fs.n :
              (AncestorsDescended(e) /\ fs.fault[e] \notin {"read", "ftype"})
                  => At("filter", e) # {}

C20_Witness ==
    \E d, x, e \in 1..fs.n :
        /\ built # NoFilter /\ Ended
        /\ Pruned(log, d) /\ fs.parent[x] = d /\ At("filter", x) = {}
        /\ fs.fault[e] = "ftype" /\ AncestorsDescended(e) /\ At("filter", e) = {}
        /\ At("filter", d) # {}

C20_WitnessIgnore ==
    \E d, x \in 1..fs.n :
        /\ built # NoFilter /\ Ended
        /\ VerdictOf(d) = "Ignore" /\ fs.parent[x] = d /\ At("filter", x) # {}

====
